---- MODULE Spec2Model ----
(***************************************************************************)
(* Ledger transaction engine of the wallet service (walletService:         *)
(* topupWallet, issueBonus, spendCredits) running against one PostgreSQL   *)
(* store under READ COMMITTED, with many concurrent requests.              *)
(*                                                                         *)
(* Amounts.  A request amount is a JS number; it is modelled as a whole    *)
(* number of 0.00001 units ("raw" units).  A persisted amount is           *)
(* DECIMAL(20,4); it is modelled as a whole number of 0.0001 units         *)
(* ("ticks").  One tick is ten raw units.                                  *)
(*                                                                         *)
(* Identifiers.  Wallet ids are equal-length strings compared by the       *)
(* default Array.prototype.sort order; they are modelled as equal-length   *)
(* sequences of character codes compared lexicographically.                *)
(***************************************************************************)
EXTENDS Integers, Sequences, FiniteSets, TLC

VARIABLES
    nativeUpsert, \* build choice: upsert is INSERT .. ON CONFLICT DO UPDATE, or SELECT then INSERT
    wallets,      \* committed Wallet rows
    txs,          \* committed Transaction rows
    ledger,       \* committed LedgerEntry rows
    rowLock,      \* rowLock[p]: ids of committed Wallet rows whose row lock p's unit holds
    pend,         \* pend[p]: rows written by p's open unit, not yet committed
    pc,           \* pc[p]: position of request p
    req,          \* req[p]: the request slot p submits
    userWallet,   \* userWallet[p]: id resolved for the user's wallet
    treasuryWallet, \* treasuryWallet[p]: id resolved for the treasury wallet
    lockIdx,      \* lockIdx[p]: how many ids of its sorted array lockWalletsInOrder has locked
    balance,      \* balance[p]: balance read by computeBalanceInTx, in ticks
    transaction,  \* transaction[p]: id of the Transaction row p created
    walletIds,    \* walletIds[p]: ids getTransactionHistory found for the user
    result,       \* result[p]: what the caller of p's last request received
    first         \* first[k]: payload returned by the request that committed key k

vars == <<nativeUpsert, wallets, txs, ledger, rowLock, pend, pc, req, userWallet,
          treasuryWallet, lockIdx, balance, transaction, walletIds, result, first>>

----------------------------------------------------------------------------
(* Bounds of the model *)

\* number of concurrent request slots
NumProcs == 2
\* the balance the seed gives alice, in ticks (1000.0000 in the seed script, scaled down)
SeedBalance == 2
\* the most entries getTransactionHistory returns (take: 50, scaled down)
HistoryLimit == 2

Procs == 1..NumProcs

(* Reference data, as the seed script creates it (scaled down) *)
TreasuryUser == "treasury"
Users == {"treasury", "alice", "bob"}
\* User.isSystem: true for the treasury account only
isSystem(u) == u = TreasuryUser
SystemUsers == {u \in Users : isSystem(u)}
AssetTypes == {"GC", "DIA", "LP"}
\* a user id and an asset type id that no row carries
UnknownUser == "mallory"
UnknownAsset == "XX"
Kinds == {"TOPUP", "BONUS", "SPEND"}
\* the two query endpoints
Queries == {"BALANCE", "HISTORY"}

\* idempotency keys are opaque strings; one per request slot is enough
Keys == Procs
\* the seed's four keys, `seed-${credit}-${type}`
SeedKey == 0
SeedKeyDIA == 0 - 2
SeedKeyBobGC == 0 - 3
SeedKeyBobLP == 0 - 4
SeedKeys == {SeedKey, SeedKeyDIA, SeedKeyBobGC, SeedKeyBobLP}

\* raw amounts a request may carry: 0.00005, 0.0001, 0.0002
Amounts == {5, 10, 20}
\* amounts the request schema refuses: 0 and -0.0001
NonPositive == {0, 0 - 10}

\* wallet ids: distinct equal-length strings.  The seed's GC wallets of the treasury
\* and of alice draw theirs from SeedWalletIds, in either order; its other five wallets
\* have the ids below; <<0, 0>> and <<1, 1>> are left for wallets created later
WalletIds == {<<0, 0>>, <<0, 1>>, <<1, 0>>, <<1, 1>>, <<2, 0>>, <<2, 1>>, <<2, 2>>,
              <<3, 0>>, <<3, 1>>}
SeedWalletIds == {<<0, 1>>, <<1, 0>>}
treasuryDIA == <<2, 0>>
aliceDIA == <<2, 1>>
bobGC == <<2, 2>>
treasuryLP == <<3, 0>>
bobLP == <<3, 1>>
\* the ids of the seed script's wallets; a wallet created by a request gets another one
SeedScriptWalletIds == SeedWalletIds \cup {treasuryDIA, aliceDIA, bobGC, treasuryLP, bobLP}
NoId == <<>>
NoTx == 0 - 1
SeedTx == 0
NoKey == 0 - 1
\* GET /wallet/:userId/transactions without ?assetTypeId
NoAsset == ""

Request(type, userId, assetTypeId, amount, key) ==
    [type |-> type, userId |-> userId, assetTypeId |-> assetTypeId, amount |-> amount,
     idempotencyKey |-> key]

(* Workloads: the request each slot submits (and may resubmit) in one run.       *)
(* After the seed alice has a GC and a DIA wallet, bob a GC and an LP wallet, and *)
(* the treasury one wallet per asset type; alice has no LP wallet and bob no DIA  *)
(* wallet.                                                                        *)
(* MixedOnAlice: any kinds on alice's GC wallet, one amount, distinct keys.       *)
(* SameKey: any kinds on alice's GC wallet, all under key 1.                      *)
(* FirstTouch: one kind and one amount, 0.00005 or 0.0001, on LP, by alice, who   *)
(* has no LP wallet yet, or by the treasury user itself.                          *)
MixedOnAlice ==
    {[p \in Procs |-> Request(k[p], "alice", "GC", a, p)] : k \in [Procs -> Kinds], a \in Amounts}
SameKey ==
    {[p \in Procs |-> Request(k[p], "alice", "GC", 10, 1)] : k \in [Procs -> Kinds]}
FirstTouch ==
    {[p \in Procs |-> Request(k, u[p], "LP", a, p)] :
        k \in Kinds, u \in [Procs -> {"alice", TreasuryUser}], a \in {5, 10}}
\* SubTick: one kind on alice's wallet, distinct keys, the amount 0.00004, which is
\* positive and rounds to no tick at all.
SubTick ==
    {[p \in Procs |-> Request(k, "alice", "GC", 4, p)] : k \in Kinds}
\* Invalid: slot 1 submits a TopUp under key 1; the others submit, under the same key,
\* a request whose amount is not positive.
Invalid ==
    {[p \in Procs |-> IF p = 1 THEN Request("TOPUP", "alice", "GC", 10, 1)
                                ELSE Request(k, "alice", "GC", a, 1)] :
        k \in Kinds, a \in NonPositive}

\* a query carries no amount and no idempotency key
Query(type, userId, assetTypeId) == Request(type, userId, assetTypeId, 0, NoKey)

QueryTargets ==
    {Query("BALANCE", "alice", "GC"), Query("BALANCE", "alice", "LP"),
     Query("BALANCE", "bob", "LP"), Query("BALANCE", TreasuryUser, "GC"),
     Query("HISTORY", "alice", NoAsset), Query("HISTORY", "alice", "GC"),
     Query("HISTORY", "bob", "DIA")}

\* ReadWhileWriting: slot 1 submits a mutation for alice on GC or on LP, the others
\* submit queries.
ReadWhileWriting ==
    {[p \in Procs |-> IF p = 1 THEN m ELSE q[p]] :
        m \in {Request(k, ua[1], ua[2], 10, 1) :
                 k \in Kinds, ua \in {<<"alice", "GC">>, <<"alice", "LP">>}},
        q \in [Procs -> QueryTargets]}

\* Unknown: one kind under distinct keys, for a user id or an asset type id that no
\* row carries.
Unknown ==
    {[p \in Procs |-> Request(k, ua[1], ua[2], 10, p)] :
        k \in Kinds, ua \in {<<UnknownUser, "GC">>, <<"alice", UnknownAsset>>}}
\* RetryKey: under key 1, slot 1 submits a Spend of one tick more than the seed gave
\* alice, the others a TopUp of 0.0002.
RetryKey ==
    {[p \in Procs |-> IF p = 1 THEN Request("SPEND", "alice", "GC", (SeedBalance + 1) * 10, 1)
                                ELSE Request("TOPUP", "alice", "GC", 20, 1)]}
\* KeyReuse: slot 1 submits a TopUp for alice on GC under key 1; the others submit,
\* under the same key, a request of any kind and another amount for bob on DIA, where
\* bob has no wallet.
KeyReuse ==
    {[p \in Procs |-> IF p = 1 THEN Request("TOPUP", "alice", "GC", 10, 1)
                                ELSE Request(k, "bob", "DIA", 20, 1)] : k \in Kinds}
\* TwoUsers: one kind and one amount, 0.00005 or 0.0001, on GC under distinct keys,
\* slot 1 for alice, the others for bob.
TwoUsers ==
    {[p \in Procs |-> Request(k, IF p = 1 THEN "alice" ELSE "bob", "GC", a, p)] :
        k \in Kinds, a \in {5, 10}}

Workloads ==
    MixedOnAlice \cup SameKey \cup FirstTouch \cup SubTick \cup Invalid
      \cup ReadWhileWriting \cup Unknown \cup RetryKey \cup KeyReuse \cup TwoUsers

NoPend == [wallets |-> {}, txs |-> {}, ledger |-> {}]
NoResult == [status |-> "none"]

----------------------------------------------------------------------------
(* Pure helpers *)

\* default JS string comparison on equal-length strings
RECURSIVE LexLess(_, _)
LexLess(a, b) ==
    IF a = <<>> THEN b # <<>>
    ELSE IF b = <<>> THEN FALSE
    ELSE IF Head(a) # Head(b) THEN Head(a) < Head(b)
    ELSE LexLess(Tail(a), Tail(b))

\* insert x into the sorted sequence s (after equal elements)
RECURSIVE InsertSorted(_, _)
InsertSorted(x, s) ==
    IF s = <<>> THEN <<x>>
    ELSE IF LexLess(x, Head(s)) THEN <<x>> \o s
    ELSE <<Head(s)>> \o InsertSorted(x, Tail(s))

\* the array left in the order it was passed
Unsorted(s) == s

\* [...walletIds].sort()
RECURSIVE SortIds(_)
SortIds(s) == IF s = <<>> THEN <<>> ELSE InsertSorted(s[Len(s)], SortIds(SubSeq(s, 1, Len(s) - 1)))

\* new Decimal(amount).toFixed(4): raw units to ticks, rounding half up
ToFixed4(raw) == (raw + 5) \div 10

RECURSIVE SumAmounts(_)
SumAmounts(S) ==
    IF S = {} THEN 0
    ELSE LET e == CHOOSE x \in S : TRUE IN e.amount + SumAmounts(S \ {e})

\* the balance query: credits received minus debits paid out, over the given entries
BalanceOver(entries, walletId) ==
    SumAmounts({e \in entries : e.creditWalletId = walletId})
      - SumAmounts({e \in entries : e.debitWalletId = walletId})

\* derived balance of a wallet in the committed store
computeBalance(walletId) == BalanceOver(ledger, walletId)

----------------------------------------------------------------------------
(* The store, as one unit sees it *)

OtherProcs(p) == Procs \ {p}

\* Wallet rows a statement of p's unit sees: committed rows and its own writes
VisibleWallets(p) == wallets \cup pend[p].wallets

\* LedgerEntry rows a statement of p's unit sees
VisibleLedger(p) == ledger \cup pend[p].ledger

AllPendingWallets == UNION {pend[q].wallets : q \in Procs}
AllPendingTxs == UNION {pend[q].txs : q \in Procs}

UsedWalletIds == {w.id : w \in wallets \cup AllPendingWallets}
\* the ids a new Wallet row of a request can get (uuid)
FreshWalletIds == WalletIds \ (UsedWalletIds \cup SeedScriptWalletIds)
UsedTxIds == {t.id : t \in txs \cup AllPendingTxs}

\* an id generator that hands out an id it has handed out before
RepeatedTxId ==
    IF UsedTxIds \ {SeedTx} = {} THEN Cardinality(UsedTxIds)
    ELSE CHOOSE n \in UsedTxIds \ {SeedTx} : TRUE

\* a fresh Transaction id (uuid): the least one no row carries
FreshTxId == CHOOSE n \in 1..(Cardinality(UsedTxIds) + 1) :
                /\ n \notin UsedTxIds
                /\ \A m \in 1..(n - 1) : m \in UsedTxIds

WalletRows(S, u, a) == {w \in S : w.userId = u /\ w.assetTypeId = a}

\* processes whose open unit holds the row lock of committed wallet row id
LockHolders(id) == {q \in Procs : id \in rowLock[q]}

\* processes whose open unit has inserted, not yet committed, a wallet row for (u, a):
\* Wallet_userId_assetTypeId_key makes a second insert wait for them
WalletInserters(u, a) == {q \in Procs : WalletRows(pend[q].wallets, u, a) # {}}

\* processes whose open unit has inserted, not yet committed, an entry under key k:
\* LedgerEntry_idempotencyKey_key makes a second insert wait for them
KeyInserters(k) == {q \in Procs : \E e \in pend[q].ledger : e.idempotencyKey = k}

\* a LedgerEntry table without the unique index refuses no key
KeyNeverRefused(k) == FALSE

\* LedgerEntry_idempotencyKey_key against committed rows
KeyCommitted(k) == \E e \in ledger : e.idempotencyKey = k

\* a replay lookup that never finds anything
findNothing(k) == {}

\* prisma.ledgerEntry.findUnique({ where: { idempotencyKey } }): the committed entries found
findUnique(k) == {e \in ledger : e.idempotencyKey = k}

----------------------------------------------------------------------------
(* Responses *)

\* errorHandler: the HTTP status an error is answered with
\* a handler without the branch for the unique-constraint error
errorHandlerGeneric(code) ==
    IF code = "ZodError" THEN 400
    ELSE IF code = "P2025" THEN 404
    ELSE IF code = "Insufficient balance" THEN 422
    ELSE 500

errorHandler(code) ==
    IF code = "ZodError" THEN 400
    ELSE IF code = "P2002" THEN 409
    ELSE IF code = "P2025" THEN 404
    ELSE IF code = "Insufficient balance" THEN 422
    ELSE 500

ErrorResult(code) == [status |-> "error", code |-> code, http |-> errorHandler(code)]

\* the payload of a replay hit
ReplayPayload(existing) ==
    [message |-> "Duplicate request - returning original result",
     idempotent |-> TRUE, transactionId |-> existing.transactionId]

\* the payload of a committed TopUp or Bonus
IssuePayload(txId, amount) ==
    [transactionId |-> txId, amount |-> amount, idempotent |-> FALSE]

\* the payload of a committed Spend; remainingBalance is balance.minus(amount).toFixed(4)
SpendPayload(txId, amount, bal) ==
    [transactionId |-> txId, amount |-> amount,
     remainingBalance |-> ToFixed4(bal * 10 - amount), idempotent |-> FALSE]

\* the controller's answer: 200 for a replay, 201 for a new entry
OkResult(payload) ==
    [status |-> "ok", http |-> IF payload.idempotent THEN 200 ELSE 201, data |-> payload]

----------------------------------------------------------------------------
(* Initial state: the store as prisma/seed.ts leaves it: three users, three    *)
(* asset types, seven wallets and four seed entries under the one seed          *)
(* Transaction.  The seeded balances 1000, 500, 200 and 50 are scaled down to   *)
(* SeedBalance, half of it, and one tick for the two smallest.                  *)
(* Or: the store of a seed run that stopped part-way.  The script is a sequence *)
(* of separate statements, its failure is caught and logged, and the entrypoint *)
(* starts the server whatever the outcome and never seeds again once a user     *)
(* exists.  The store taken here is the one after the treasury's GC and DIA     *)
(* wallets: every user and asset type, those two wallets, no entry.             *)
(* No request is running.                                                       *)

\* one element of seedEntries, as the loop of the seed script inserts it
SeedEntry(asset, debit, credit, amount, type, key, at) ==
    [transactionId |-> SeedTx, assetTypeId |-> asset, debitWalletId |-> debit,
     creditWalletId |-> credit, amount |-> amount, transactionType |-> type,
     idempotencyKey |-> key, createdAt |-> at]

\* the store after the seed script
Seeded ==
    /\ \E t \in SeedWalletIds, a \in SeedWalletIds :
          /\ t # a
          /\ wallets = {[id |-> t, userId |-> TreasuryUser, assetTypeId |-> "GC"],
                        [id |-> treasuryDIA, userId |-> TreasuryUser, assetTypeId |-> "DIA"],
                        [id |-> treasuryLP, userId |-> TreasuryUser, assetTypeId |-> "LP"],
                        [id |-> a, userId |-> "alice", assetTypeId |-> "GC"],
                        [id |-> aliceDIA, userId |-> "alice", assetTypeId |-> "DIA"],
                        [id |-> bobGC, userId |-> "bob", assetTypeId |-> "GC"],
                        [id |-> bobLP, userId |-> "bob", assetTypeId |-> "LP"]}
          /\ ledger = {SeedEntry("GC", t, a, SeedBalance, "TOPUP", SeedKey, 0),
                       SeedEntry("DIA", treasuryDIA, aliceDIA, 1, "TOPUP", SeedKeyDIA, 1),
                       SeedEntry("GC", t, bobGC, (SeedBalance + 1) \div 2, "BONUS",
                                 SeedKeyBobGC, 2),
                       SeedEntry("LP", treasuryLP, bobLP, 1, "BONUS", SeedKeyBobLP, 3)}
    /\ txs = {[id |-> SeedTx, type |-> "TOPUP", status |-> "COMPLETED"]}
    /\ req \in Workloads

\* the store of a seed run that stopped after const treasuryDIA
SeedStopped ==
    /\ \E t \in SeedWalletIds :
          wallets = {[id |-> t, userId |-> TreasuryUser, assetTypeId |-> "GC"],
                     [id |-> treasuryDIA, userId |-> TreasuryUser, assetTypeId |-> "DIA"]}
    /\ ledger = {}
    /\ txs = {}
    /\ req \in FirstTouch \cup TwoUsers

Init ==
    /\ nativeUpsert \in BOOLEAN
    /\ Seeded \/ SeedStopped
    /\ rowLock = [p \in Procs |-> {}]
    /\ pend = [p \in Procs |-> NoPend]
    /\ pc = [p \in Procs |-> "idle"]
    /\ userWallet = [p \in Procs |-> NoId]
    /\ treasuryWallet = [p \in Procs |-> NoId]
    /\ lockIdx = [p \in Procs |-> 0]
    /\ balance = [p \in Procs |-> 0]
    /\ transaction = [p \in Procs |-> NoTx]
    /\ walletIds = [p \in Procs |-> {}]
    /\ result = [p \in Procs |-> NoResult]
    /\ first = [k \in Keys |-> NoResult]

----------------------------------------------------------------------------
(* Ending a request *)

ResetLocals(p) ==
    /\ userWallet' = [userWallet EXCEPT ![p] = NoId]
    /\ treasuryWallet' = [treasuryWallet EXCEPT ![p] = NoId]
    /\ lockIdx' = [lockIdx EXCEPT ![p] = 0]
    /\ balance' = [balance EXCEPT ![p] = 0]
    /\ transaction' = [transaction EXCEPT ![p] = NoTx]

\* an error that discards the rows of the unit and leaves its row locks in place
RollbackKeepingLocks(p, code) ==
    /\ pend' = [pend EXCEPT ![p] = NoPend]
    /\ pc' = [pc EXCEPT ![p] = "done"]
    /\ result' = [result EXCEPT ![p] = ErrorResult(code)]
    /\ ResetLocals(p)
    /\ UNCHANGED <<nativeUpsert, wallets, txs, ledger, rowLock, req, walletIds, first>>

\* an error that reaches the caller after the entries of the unit were made durable
RollbackKeepingEntries(p, code) ==
    /\ ledger' = ledger \cup pend[p].ledger
    /\ txs' = txs \cup {t \in pend[p].txs : \E e \in pend[p].ledger : e.transactionId = t.id}
    /\ wallets' = wallets \cup {w \in pend[p].wallets : pend[p].ledger # {}}
    /\ pend' = [pend EXCEPT ![p] = NoPend]
    /\ rowLock' = [rowLock EXCEPT ![p] = {}]
    /\ pc' = [pc EXCEPT ![p] = "done"]
    /\ result' = [result EXCEPT ![p] = ErrorResult(code)]
    /\ ResetLocals(p)
    /\ UNCHANGED <<nativeUpsert, req, walletIds, first>>

\* an error thrown inside prisma.$transaction: the unit rolls back, its row locks are
\* released, and the error reaches errorHandler
Rollback(p, code) ==
    /\ pend' = [pend EXCEPT ![p] = NoPend]
    /\ rowLock' = [rowLock EXCEPT ![p] = {}]
    /\ pc' = [pc EXCEPT ![p] = "done"]
    /\ result' = [result EXCEPT ![p] = ErrorResult(code)]
    /\ ResetLocals(p)
    /\ UNCHANGED <<nativeUpsert, wallets, txs, ledger, req, walletIds, first>>

\* positions inside the callback of prisma.$transaction
InUnit == {"userWallet", "userInsert", "findSystem", "treasuryWallet", "treasuryInsert",
           "lock", "balance", "createTx", "createEntry", "updateTx", "commit"}

----------------------------------------------------------------------------
(* Entry: the controller parses the body with TopupSchema, then topupWallet /  *)
(* issueBonus / spendCredits checks the amount itself                          *)

\* a schema whose amount is z.number() only
anyNumber(amount) == TRUE

\* amount: z.number().positive()
positive(amount) == amount > 0

Call(p) ==
    /\ pc[p] \in {"idle", "done"}
    /\ req[p].type \in Kinds
    /\ IF ~positive(req[p].amount)
         THEN /\ pc' = [pc EXCEPT ![p] = "done"]
              /\ result' = [result EXCEPT ![p] = ErrorResult("ZodError")]
         ELSE IF req[p].amount <= 0
           THEN /\ pc' = [pc EXCEPT ![p] = "done"]
                /\ result' = [result EXCEPT ![p] = ErrorResult("Amount must be positive")]
           ELSE /\ pc' = [pc EXCEPT ![p] = "check"]
                /\ result' = [result EXCEPT ![p] = NoResult]
    /\ UNCHANGED <<nativeUpsert, wallets, txs, ledger, rowLock, pend, req, walletIds, userWallet,
                   treasuryWallet, lockIdx, balance, transaction, first>>

\* a replay check that waits until no unit holds a row lock
CheckIdempotencyWaiting(p) ==
    /\ pc[p] = "check"
    /\ \A q \in OtherProcs(p) : rowLock[q] = {}
    /\ LET existing == findUnique(req[p].idempotencyKey) IN
         IF existing # {}
           THEN /\ pc' = [pc EXCEPT ![p] = "done"]
                /\ result' = [result EXCEPT ![p] =
                                OkResult(ReplayPayload(CHOOSE e \in existing : TRUE))]
           ELSE /\ pc' = [pc EXCEPT ![p] = "userWallet"]
                /\ UNCHANGED result
    /\ UNCHANGED <<nativeUpsert, wallets, txs, ledger, rowLock, pend, req, walletIds,
                   userWallet, treasuryWallet, lockIdx, balance, transaction, first>>

(* The replay check: findUnique on the idempotency key, outside any unit *)
CheckIdempotency(p) ==
    /\ pc[p] = "check"
    /\ LET existing == findUnique(req[p].idempotencyKey) IN
         IF existing # {}
           THEN /\ pc' = [pc EXCEPT ![p] = "done"]
                /\ result' = [result EXCEPT ![p] =
                                OkResult(ReplayPayload(CHOOSE e \in existing : TRUE))]
           ELSE /\ pc' = [pc EXCEPT ![p] = "userWallet"]
                /\ UNCHANGED result
    /\ UNCHANGED <<nativeUpsert, wallets, txs, ledger, rowLock, pend, req, walletIds, userWallet,
                   treasuryWallet, lockIdx, balance, transaction, first>>

----------------------------------------------------------------------------
(* Wallet resolution: tx.wallet.upsert({ where: (u, a), update: {}, create: (u, a) }) *)

\* the foreign keys of Wallet
WalletForeignKeysHold(u, a) == u \in Users /\ a \in AssetTypes

SetWallet(p, which, id) ==
    IF which = "user"
      THEN /\ userWallet' = [userWallet EXCEPT ![p] = id]
           /\ UNCHANGED treasuryWallet
      ELSE /\ treasuryWallet' = [treasuryWallet EXCEPT ![p] = id]
           /\ UNCHANGED userWallet

\* the same INSERT issued on the global client instead of the unit's: the row is
\* committed at once
InsertWalletOutsideUnit(p, u, a, which, next) ==
    /\ WalletInserters(u, a) \subseteq {p}
    /\ IF WalletRows(wallets, u, a) # {}
         THEN Rollback(p, "P2002")
         ELSE IF ~(u \in Users /\ a \in AssetTypes)
           THEN Rollback(p, "P2003")
           ELSE \E id \in FreshWalletIds :
                  /\ wallets' = wallets \cup {[id |-> id, userId |-> u, assetTypeId |-> a]}
                  /\ SetWallet(p, which, id)
                  /\ pc' = [pc EXCEPT ![p] = next]
                  /\ UNCHANGED <<nativeUpsert, txs, ledger, rowLock, pend, req, walletIds,
                                 lockIdx, balance, transaction, result, first>>

\* INSERT of a new Wallet row for (u, a) by p's unit; waits while another open unit
\* has inserted a row for the same pair
InsertWallet(p, u, a, which, next) ==
    /\ WalletInserters(u, a) \subseteq {p}
    /\ IF WalletRows(wallets, u, a) # {}
         THEN Rollback(p, "P2002")
         ELSE IF ~WalletForeignKeysHold(u, a)
           THEN Rollback(p, "P2003")
           ELSE \E id \in FreshWalletIds :
                  /\ pend' = [pend EXCEPT ![p].wallets =
                                @ \cup {[id |-> id, userId |-> u, assetTypeId |-> a]}]
                  /\ SetWallet(p, which, id)
                  /\ pc' = [pc EXCEPT ![p] = next]
                  /\ UNCHANGED <<nativeUpsert, wallets, txs, ledger, rowLock, req, walletIds,
                                 lockIdx, balance, transaction, result, first>>

\* the upsert statement.  Native: one INSERT .. ON CONFLICT DO UPDATE, which locks the
\* row it finds.  Otherwise: a SELECT, followed by a separate INSERT when no row is seen.
Upsert(p, u, a, which, insertPc, next) ==
    LET seen == WalletRows(VisibleWallets(p), u, a) IN
      IF seen # {}
        THEN LET w == CHOOSE x \in seen : TRUE IN
               /\ nativeUpsert /\ w \in wallets => LockHolders(w.id) \subseteq {p}
               /\ rowLock' = [rowLock EXCEPT ![p] =
                                IF nativeUpsert /\ w \in wallets THEN @ \cup {w.id} ELSE @]
               /\ SetWallet(p, which, w.id)
               /\ pc' = [pc EXCEPT ![p] = next]
               /\ UNCHANGED <<nativeUpsert, wallets, txs, ledger, pend, req, walletIds,
                              lockIdx, balance, transaction, result, first>>
        ELSE IF nativeUpsert
          THEN InsertWallet(p, u, a, which, next)
          ELSE /\ pc' = [pc EXCEPT ![p] = insertPc]
               /\ UNCHANGED <<nativeUpsert, wallets, txs, ledger, rowLock, pend, req, walletIds,
                              userWallet, treasuryWallet, lockIdx, balance,
                              transaction, result, first>>

\* getOrCreateWallet(tx, userId, assetTypeId)
getOrCreateWallet(p) ==
    /\ pc[p] = "userWallet"
    /\ Upsert(p, req[p].userId, req[p].assetTypeId, "user", "userInsert", "findSystem")

InsertUserWallet(p) ==
    /\ pc[p] = "userInsert"
    /\ InsertWallet(p, req[p].userId, req[p].assetTypeId, "user", "findSystem")

\* getTreasuryWallet: tx.user.findFirstOrThrow({ where: { isSystem: true } })
findFirstOrThrow(p) ==
    /\ pc[p] = "findSystem"
    /\ IF SystemUsers = {}
         THEN Rollback(p, "P2025")
         ELSE /\ pc' = [pc EXCEPT ![p] = "treasuryWallet"]
              /\ UNCHANGED <<nativeUpsert, wallets, txs, ledger, rowLock, pend, req, walletIds,
                             userWallet, treasuryWallet, lockIdx, balance,
                             transaction, result, first>>

\* getTreasuryWallet: getOrCreateWallet(tx, systemUser.id, assetTypeId); on return the
\* caller starts lockWalletsInOrder with the sorted copy of [userWallet.id, treasuryWallet.id]
SystemUser == CHOOSE u \in SystemUsers : TRUE

\* the treasury wallet looked up without regard to the asset type of the request
getTreasuryWalletOfGC(p) ==
    /\ pc[p] = "treasuryWallet"
    /\ Upsert(p, SystemUser, "GC", "treasury", "treasuryInsert", "lock")

getTreasuryWallet(p) ==
    /\ pc[p] = "treasuryWallet"
    /\ Upsert(p, SystemUser, req[p].assetTypeId, "treasury", "treasuryInsert", "lock")

\* the create branch of that upsert: taken when the treasury has no wallet of the asset,
\* which is so in a store whose seed stopped before it created that wallet
InsertTreasuryWallet(p) ==
    /\ pc[p] = "treasuryInsert"
    /\ InsertWallet(p, SystemUser, req[p].assetTypeId, "treasury", "lock")

----------------------------------------------------------------------------
(* lockWalletsInOrder(tx, [userWallet.id, treasuryWallet.id]) *)

\* the two wallets taken in the order of the entry, debit wallet first
DebitFirstIds(p) ==
    IF req[p].type = "SPEND" THEN <<userWallet[p], treasuryWallet[p]>>
    ELSE <<treasuryWallet[p], userWallet[p]>>

\* the user's wallet alone, the treasury wallet left unlocked
UserWalletOnly(p) == <<userWallet[p]>>

\* const sorted = [...walletIds].sort()
SortedIds(p) == SortIds(<<userWallet[p], treasuryWallet[p]>>)

\* the id the loop is about to lock
NextLockId(p) == SortedIds(p)[lockIdx[p] + 1]

\* the ids the loop has locked so far
LockedInOrder(p) == {SortedIds(p)[i] : i \in 1..lockIdx[p]}

\* a SELECT without FOR UPDATE waits for nobody
ForUpdateIgnored(p, id) == TRUE

\* FOR UPDATE on a committed row is granted once no other open unit holds the row's lock
ForUpdateGranted(p, id) == LockHolders(id) \subseteq {p}

\* one iteration: SELECT id FROM "Wallet" WHERE id = .. FOR UPDATE; it waits while
\* another open unit holds the row's lock; a row the unit itself inserted is its own
lockWalletsInOrder(p) ==
    /\ pc[p] = "lock"
    /\ LET id == NextLockId(p)
           committed == \E w \in wallets : w.id = id
       IN /\ committed => ForUpdateGranted(p, id)
          /\ rowLock' = [rowLock EXCEPT ![p] = IF committed THEN @ \cup {id} ELSE @]
          /\ lockIdx' = [lockIdx EXCEPT ![p] = @ + 1]
          /\ pc' = [pc EXCEPT ![p] =
                      IF lockIdx[p] + 1 < Len(SortedIds(p)) THEN "lock"
                      ELSE IF req[p].type = "SPEND" THEN "balance" ELSE "createTx"]
    /\ UNCHANGED <<nativeUpsert, wallets, txs, ledger, pend, req, walletIds, userWallet,
                   treasuryWallet, balance, transaction, result, first>>

----------------------------------------------------------------------------
(* The body of the unit after the locks *)

\* computeBalanceInTx(tx, walletId), in ticks
computeBalanceInTx(p, walletId) == BalanceOver(VisibleLedger(p), walletId)

\* a guard that refuses nothing
NeverLess(bal, amount) == FALSE

\* a guard that compares the balance with the amount cut to four fractional digits
LessThanTruncated(bal, amount) == bal < amount \div 10

\* balance.lessThan(amount): balance in ticks against a raw amount
LessThanAmount(bal, amount) == bal * 10 < amount

\* spendCredits: read the balance under the locks and refuse the spend it cannot cover
CheckBalance(p) ==
    /\ pc[p] = "balance"
    /\ LET bal == computeBalanceInTx(p, userWallet[p]) IN
         IF LessThanAmount(bal, req[p].amount)
           THEN Rollback(p, "Insufficient balance")
           ELSE /\ balance' = [balance EXCEPT ![p] = bal]
                /\ pc' = [pc EXCEPT ![p] = "createTx"]
                /\ UNCHANGED <<nativeUpsert, wallets, txs, ledger, rowLock, pend, req, walletIds,
                               userWallet, treasuryWallet, lockIdx, transaction, result,
                               first>>

\* the status tx.transaction.create writes: COMPLETED in topupWallet, PENDING otherwise
InitialStatus(type) == IF type = "TOPUP" THEN "COMPLETED" ELSE "PENDING"

\* tx.transaction.create
CreateTransaction(p) ==
    /\ pc[p] = "createTx"
    /\ LET id == FreshTxId IN
         /\ pend' = [pend EXCEPT ![p].txs =
                       @ \cup {[id |-> id, type |-> req[p].type,
                                status |-> InitialStatus(req[p].type)]}]
         /\ transaction' = [transaction EXCEPT ![p] = id]
    /\ pc' = [pc EXCEPT ![p] = "createEntry"]
    /\ UNCHANGED <<nativeUpsert, wallets, txs, ledger, rowLock, req, walletIds, userWallet,
                   treasuryWallet, lockIdx, balance, result, first>>

\* createdAt: the clock at the INSERT, later than that of every row inserted before;
\* only the order of the timestamps is kept
AllEntries == ledger \cup UNION {pend[q].ledger : q \in Procs}
Now == 1 + CHOOSE n \in {e.createdAt : e \in AllEntries} \cup {0} :
             \A e \in AllEntries : e.createdAt <= n

\* the double entry with its two sides exchanged
NewEntryReversed(p) ==
    [transactionId |-> transaction[p],
     assetTypeId |-> req[p].assetTypeId,
     debitWalletId |-> IF req[p].type = "SPEND" THEN treasuryWallet[p] ELSE userWallet[p],
     creditWalletId |-> IF req[p].type = "SPEND" THEN userWallet[p] ELSE treasuryWallet[p],
     amount |-> ToFixed4(req[p].amount),
     transactionType |-> req[p].type,
     idempotencyKey |-> req[p].idempotencyKey,
     createdAt |-> Now]

\* the double entry: TOPUP and BONUS debit the treasury and credit the user,
\* SPEND debits the user and credits the treasury
NewEntry(p) ==
    [transactionId |-> transaction[p],
     assetTypeId |-> req[p].assetTypeId,
     debitWalletId |-> IF req[p].type = "SPEND" THEN userWallet[p] ELSE treasuryWallet[p],
     creditWalletId |-> IF req[p].type = "SPEND" THEN treasuryWallet[p] ELSE userWallet[p],
     amount |-> ToFixed4(req[p].amount),
     transactionType |-> req[p].type,
     idempotencyKey |-> req[p].idempotencyKey,
     createdAt |-> Now]

\* tx.ledgerEntry.create under LedgerEntry_idempotencyKey_key: it waits while another
\* open unit has inserted the key, and fails with P2002 when the key is committed
CreateLedgerEntry(p) ==
    /\ pc[p] = "createEntry"
    /\ KeyInserters(req[p].idempotencyKey) \subseteq {p}
    /\ IF KeyCommitted(req[p].idempotencyKey)
         THEN Rollback(p, "P2002")
         ELSE /\ pend' = [pend EXCEPT ![p].ledger = @ \cup {NewEntry(p)}]
              /\ pc' = [pc EXCEPT ![p] = "updateTx"]
              /\ UNCHANGED <<nativeUpsert, wallets, txs, ledger, rowLock, req, walletIds, userWallet,
                             treasuryWallet, lockIdx, balance, transaction, result, first>>

\* a unit that goes on to commit without the status update
UpdateTransactionSkipped(p) ==
    /\ pc[p] = "updateTx"
    /\ pc' = [pc EXCEPT ![p] = "commit"]
    /\ UNCHANGED <<nativeUpsert, wallets, txs, ledger, rowLock, pend, req, walletIds,
                   userWallet, treasuryWallet, lockIdx, balance, transaction, result, first>>

\* tx.transaction.update({ where: { id }, data: { status: COMPLETED } })
UpdateTransaction(p) ==
    /\ pc[p] = "updateTx"
    /\ pend' = [pend EXCEPT ![p].txs =
                  {IF t.id = transaction[p] THEN [t EXCEPT !.status = "COMPLETED"] ELSE t
                     : t \in @}]
    /\ pc' = [pc EXCEPT ![p] = "commit"]
    /\ UNCHANGED <<nativeUpsert, wallets, txs, ledger, rowLock, req, walletIds, userWallet,
                   treasuryWallet, lockIdx, balance, transaction, result, first>>

\* what the callback returns
Payload(p) ==
    IF req[p].type = "SPEND"
      THEN SpendPayload(transaction[p], req[p].amount, balance[p])
      ELSE IssuePayload(transaction[p], req[p].amount)

\* a commit that replaces the ledger by the entries of the unit
CommitOverwriting(p) ==
    /\ pc[p] = "commit"
    /\ wallets' = wallets \cup pend[p].wallets
    /\ txs' = txs \cup pend[p].txs
    /\ ledger' = pend[p].ledger
    /\ pend' = [pend EXCEPT ![p] = NoPend]
    /\ rowLock' = [rowLock EXCEPT ![p] = {}]
    /\ pc' = [pc EXCEPT ![p] = "done"]
    /\ result' = [result EXCEPT ![p] = OkResult(Payload(p))]
    /\ first' = [first EXCEPT ![req[p].idempotencyKey] = Payload(p)]
    /\ ResetLocals(p)
    /\ UNCHANGED <<nativeUpsert, req, walletIds>>

\* the callback returns: the unit commits, its rows become visible, its locks are released
Commit(p) ==
    /\ pc[p] = "commit"
    /\ wallets' = wallets \cup pend[p].wallets
    /\ txs' = txs \cup pend[p].txs
    /\ ledger' = ledger \cup pend[p].ledger
    /\ pend' = [pend EXCEPT ![p] = NoPend]
    /\ rowLock' = [rowLock EXCEPT ![p] = {}]
    /\ pc' = [pc EXCEPT ![p] = "done"]
    /\ result' = [result EXCEPT ![p] = OkResult(Payload(p))]
    /\ first' = [first EXCEPT ![req[p].idempotencyKey] = Payload(p)]
    /\ ResetLocals(p)
    /\ UNCHANGED <<nativeUpsert, req, walletIds>>

\* a timeout that answers the caller and leaves the unit open
TimeoutKeepingUnit(p) ==
    /\ pc[p] \in InUnit
    /\ pc' = [pc EXCEPT ![p] = "done"]
    /\ result' = [result EXCEPT ![p] = ErrorResult("Transaction timeout")]
    /\ ResetLocals(p)
    /\ UNCHANGED <<nativeUpsert, wallets, txs, ledger, rowLock, pend, req, walletIds,
                   first>>

\* { timeout: 10000 }: the unit is aborted wherever it stands
Timeout(p) ==
    /\ pc[p] \in InUnit
    /\ Rollback(p, "Transaction timeout")

----------------------------------------------------------------------------
(* The query endpoints: statements on the global client, outside any unit *)

\* res.json({ success: true, data })
OkRead(data) == [status |-> "ok", http |-> 200, data |-> data]

\* BalanceResponse; balance is toFixed(4) of the derived balance, in ticks
BalanceResponse(u, a, bal) == [userId |-> u, assetTypeId |-> a, balance |-> bal]

\* a getBalance that resolves the wallet the way the mutations do, creating it
getBalanceCreating(p) ==
    /\ pc[p] \in {"idle", "done"}
    /\ req[p].type = "BALANCE"
    /\ LET found == WalletRows(wallets, req[p].userId, req[p].assetTypeId) IN
         IF found = {}
           THEN \E id \in WalletIds \ UsedWalletIds :
                  /\ wallets' = wallets \cup {[id |-> id, userId |-> req[p].userId,
                                               assetTypeId |-> req[p].assetTypeId]}
                  /\ pc' = [pc EXCEPT ![p] = "computeBalance"]
                  /\ userWallet' = [userWallet EXCEPT ![p] = id]
           ELSE /\ pc' = [pc EXCEPT ![p] = "computeBalance"]
                /\ userWallet' = [userWallet EXCEPT ![p] = (CHOOSE w \in found : TRUE).id]
                /\ UNCHANGED wallets
    /\ result' = [result EXCEPT ![p] = NoResult]
    /\ UNCHANGED <<nativeUpsert, txs, ledger, rowLock, pend, req, walletIds,
                   treasuryWallet, lockIdx, balance, transaction, first>>

\* getBalance: prisma.wallet.findUnique({ where: (userId, assetTypeId) })
getBalance(p) ==
    /\ pc[p] \in {"idle", "done"}
    /\ req[p].type = "BALANCE"
    /\ LET found == WalletRows(wallets, req[p].userId, req[p].assetTypeId) IN
         IF found = {}
           THEN /\ pc' = [pc EXCEPT ![p] = "findAssetType"]
                /\ UNCHANGED userWallet
           ELSE /\ pc' = [pc EXCEPT ![p] = "computeBalance"]
                /\ userWallet' = [userWallet EXCEPT ![p] = (CHOOSE w \in found : TRUE).id]
    /\ result' = [result EXCEPT ![p] = NoResult]
    /\ UNCHANGED <<nativeUpsert, wallets, txs, ledger, rowLock, pend, req, walletIds,
                   treasuryWallet, lockIdx, balance, transaction, first>>

\* getBalance, no wallet: prisma.assetType.findUniqueOrThrow, then balance '0.0000'
findUniqueOrThrow(p) ==
    /\ pc[p] = "findAssetType"
    /\ pc' = [pc EXCEPT ![p] = "done"]
    /\ result' = [result EXCEPT ![p] =
                    IF req[p].assetTypeId \in AssetTypes
                      THEN OkRead(BalanceResponse(req[p].userId, req[p].assetTypeId, 0))
                      ELSE ErrorResult("P2025")]
    /\ UNCHANGED <<nativeUpsert, wallets, txs, ledger, rowLock, pend, req, walletIds,
                   userWallet, treasuryWallet, lockIdx, balance, transaction, first>>

\* getBalance, wallet found: computeBalance(wallet.id) and the response
ReturnBalance(p) ==
    /\ pc[p] = "computeBalance"
    /\ pc' = [pc EXCEPT ![p] = "done"]
    /\ result' = [result EXCEPT ![p] =
                    OkRead(BalanceResponse(req[p].userId, req[p].assetTypeId,
                                           computeBalance(userWallet[p])))]
    /\ userWallet' = [userWallet EXCEPT ![p] = NoId]
    /\ UNCHANGED <<nativeUpsert, wallets, txs, ledger, rowLock, pend, req, walletIds,
                   treasuryWallet, lockIdx, balance, transaction, first>>

\* orderBy: { createdAt: 'asc' }
RECURSIVE OldestFirst(_)
OldestFirst(S) ==
    IF S = {} THEN <<>>
    ELSE LET e == CHOOSE x \in S : \A y \in S : x.createdAt <= y.createdAt
         IN <<e>> \o OldestFirst(S \ {e})

\* orderBy: { createdAt: 'desc' }
RECURSIVE NewestFirst(_)
NewestFirst(S) ==
    IF S = {} THEN <<>>
    ELSE LET e == CHOOSE x \in S : \A y \in S : y.createdAt <= x.createdAt
         IN <<e>> \o NewestFirst(S \ {e})

\* take: n
Take(s, n) == IF Len(s) <= n THEN s ELSE SubSeq(s, 1, n)

\* one element of the TransactionResponse list; include: { transaction: true }
TransactionResponse(e) ==
    [type |-> e.transactionType,
     status |-> (CHOOSE t \in txs : t.id = e.transactionId).status,
     amount |-> e.amount, createdAt |-> e.createdAt,
     debitWalletId |-> e.debitWalletId, creditWalletId |-> e.creditWalletId]

\* getTransactionHistory: prisma.wallet.findMany({ where: userId, assetTypeId? })
getTransactionHistory(p) ==
    /\ pc[p] \in {"idle", "done"}
    /\ req[p].type = "HISTORY"
    /\ LET ids == {w.id : w \in {x \in wallets :
                       /\ x.userId = req[p].userId
                       /\ req[p].assetTypeId # NoAsset => x.assetTypeId = req[p].assetTypeId}}
       IN IF ids = {}
            THEN /\ pc' = [pc EXCEPT ![p] = "done"]
                 /\ result' = [result EXCEPT ![p] = OkRead(<<>>)]
                 /\ UNCHANGED walletIds
            ELSE /\ pc' = [pc EXCEPT ![p] = "findEntries"]
                 /\ result' = [result EXCEPT ![p] = NoResult]
                 /\ walletIds' = [walletIds EXCEPT ![p] = ids]
    /\ UNCHANGED <<nativeUpsert, wallets, txs, ledger, rowLock, pend, req, userWallet,
                   treasuryWallet, lockIdx, balance, transaction, first>>

\* getTransactionHistory: prisma.ledgerEntry.findMany and the mapping of its rows
findMany(p) ==
    /\ pc[p] = "findEntries"
    /\ LET entries == {e \in ledger : \/ e.debitWalletId \in walletIds[p]
                                     \/ e.creditWalletId \in walletIds[p]}
           rows == Take(NewestFirst(entries), HistoryLimit)
       IN result' = [result EXCEPT ![p] =
                       OkRead([i \in 1..Len(rows) |-> TransactionResponse(rows[i])])]
    /\ pc' = [pc EXCEPT ![p] = "done"]
    /\ walletIds' = [walletIds EXCEPT ![p] = {}]
    /\ UNCHANGED <<nativeUpsert, wallets, txs, ledger, rowLock, pend, req, userWallet,
                   treasuryWallet, lockIdx, balance, transaction, first>>

----------------------------------------------------------------------------
Step(p) ==
    \/ CheckIdempotency(p)
    \/ getOrCreateWallet(p)
    \/ InsertUserWallet(p)
    \/ findFirstOrThrow(p)
    \/ getTreasuryWallet(p)
    \/ InsertTreasuryWallet(p)
    \/ lockWalletsInOrder(p)
    \/ CheckBalance(p)
    \/ CreateTransaction(p)
    \/ CreateLedgerEntry(p)
    \/ UpdateTransaction(p)
    \/ Commit(p)
    \/ findUniqueOrThrow(p)
    \/ ReturnBalance(p)
    \/ findMany(p)

Next ==
    \/ \E p \in Procs : Call(p)
    \/ \E p \in Procs : getBalance(p)
    \/ \E p \in Procs : getTransactionHistory(p)
    \/ \E p \in Procs : Step(p)
    \/ \E p \in Procs : Timeout(p)

Spec == Init /\ [][Next]_vars

\* the same program when no unit runs into its timeout
NextNoTimeout ==
    \/ \E p \in Procs : Call(p)
    \/ \E p \in Procs : getBalance(p)
    \/ \E p \in Procs : getTransactionHistory(p)
    \/ \E p \in Procs : Step(p)

SpecNoTimeout == Init /\ [][NextNoTimeout]_vars

\* the store grants a contended row lock or index slot to every waiter in turn, and
\* the event loop runs every request that can run
FairSpec == Init /\ [][Next]_vars /\ \A p \in Procs : SF_vars(Step(p))

----------------------------------------------------------------------------
(* Vocabulary of the properties *)

Done(p) == pc[p] = "done"
Failed(p, code) == Done(p) /\ result[p].status = "error" /\ result[p].code = code
\* a mutation answered with success
Succeeded(p) == Done(p) /\ req[p].type \in Kinds /\ result[p].status = "ok"
Replayed(p) == Succeeded(p) /\ result[p].data.idempotent
Committed(p) == Succeeded(p) /\ ~result[p].data.idempotent

\* the committed entries carrying key k
EntriesUnder(k) == {e \in ledger : e.idempotencyKey = k}

SeedEntries == {e \in ledger : e.idempotencyKey \in SeedKeys}
EngineEntries == ledger \ SeedEntries

AliceWallet == (CHOOSE w \in wallets : w.userId = "alice" /\ w.assetTypeId = "GC").id

----------------------------------------------------------------------------
\* C1: in every committed state, every wallet debited by a committed SPEND entry has a
\* derived balance of at least zero, whatever the interleaving of TopUp, Bonus and Spend.
C1_SpendNeverOverdraws ==
    \A e \in ledger : e.transactionType = "SPEND" => computeBalance(e.debitWalletId) >= 0

\* two Spends raced for alice's last ticks: one is committed and emptied the wallet, the
\* other was refused
C1_Witness ==
    \E p \in Procs, q \in Procs :
       /\ Committed(p) /\ req[p].type = "SPEND"
       /\ Failed(q, "Insufficient balance")
       /\ computeBalance(AliceWallet) = 0
       /\ \E e \in ledger : e.transactionType = "SPEND" /\ e.debitWalletId = AliceWallet

----------------------------------------------------------------------------
(* The scenario of C2: every slot spends the same amount from alice's wallet,  *)
(* each under its own key, and nothing else runs.                              *)
SpendRace ==
    /\ WalletRows(wallets, "alice", "GC") # {}
    /\ \A p \in Procs :
                     /\ req[p].type = "SPEND" /\ req[p].userId = "alice"
                     /\ req[p].assetTypeId = "GC"
                     /\ req[p].amount = req[1].amount
                     /\ req[p].idempotencyKey = p

AllDone == \A p \in Procs : Done(p)
Winners == {p \in Procs : Succeeded(p)}
Min(a, b) == IF a < b THEN a ELSE b

\* the claimed outcome for n Spends of raw amount a on a balance of B ticks
SpendRaceOutcome(n, a, B) ==
    LET k == Min(n, (B * 10) \div a) IN
      /\ Cardinality(Winners) = k
      /\ \A p \in Procs \ Winners : Failed(p, "Insufficient balance") /\ result[p].http = 422
      /\ computeBalance(AliceWallet) * 10 = B * 10 - a * k

\* C2 as claimed: once all n Spends of amount a on a balance B have been answered, exactly
\* min(n, floor(B/a)) succeeded, the others failed with InsufficientFunds, and the balance
\* is B - a*min(n, floor(B/a)).
C2_AsClaimed ==
    SpendRace /\ AllDone => SpendRaceOutcome(NumProcs, req[1].amount, SeedBalance)

\* C2 amended: the same, for an amount a that is a whole number of 0.0001 units.
C2_SpendRaceWholeTicks ==
    SpendRace /\ AllDone /\ req[1].amount % 10 = 0
      => SpendRaceOutcome(NumProcs, req[1].amount, SeedBalance)

\* the race was decided both ways: one Spend committed, another was refused
C2_Witness ==
    /\ SpendRace /\ AllDone /\ req[1].amount % 10 = 0
    /\ \E p \in Procs, q \in Procs : Committed(p) /\ Failed(q, "Insufficient balance")

----------------------------------------------------------------------------
\* C3: at most one committed LedgerEntry per idempotency key, and a request that lost the
\* race for its key leaves no row behind: every committed Transaction row belongs to a
\* committed entry and every committed entry to a committed Transaction row.
C3_OneEntryPerKey ==
    /\ \A k \in Keys : Cardinality(EntriesUnder(k)) <= 1
    /\ \A t \in txs : \E e \in ledger : e.transactionId = t.id
    /\ \A e \in ledger : \E t \in txs : t.id = e.transactionId

\* two requests under one key both passed the replay check; one committed the entry and
\* the other ran into the unique index
C3_Witness ==
    \E p \in Procs, q \in Procs :
       /\ p # q /\ req[p].idempotencyKey = req[q].idempotencyKey
       /\ Committed(p) /\ Failed(q, "P2002")
       /\ Cardinality(EntriesUnder(req[p].idempotencyKey)) = 1

----------------------------------------------------------------------------
\* the committed entry under the key of p's request
EntryOf(p) == CHOOSE e \in EntriesUnder(req[p].idempotencyKey) : TRUE

\* C4: a request whose insert loses the race for its idempotency key (the key is
\* committed by the time its entry is inserted) is answered with a successful replay:
\* the winner's transaction identifier, replay flag true, and no error.
C4_LoserGetsReplay ==
    [][\A p \in Procs :
         (pc[p] = "createEntry" /\ EntriesUnder(req[p].idempotencyKey) # {} /\ pc'[p] = "done")
           => /\ result'[p].status = "ok"
              /\ result'[p].data.idempotent
              /\ result'[p].data.transactionId = EntryOf(p).transactionId]_vars

\* C4 (as the code has it): the request whose insert loses the race is answered with
\* the Conflict error (HTTP 409) and writes nothing; the winner's transaction
\* identifier is what any replay of the key reports.
C4_LoserGetsConflict ==
    /\ [][\A p \in Procs :
            (pc[p] = "createEntry" /\ EntriesUnder(req[p].idempotencyKey) # {}
               /\ pc'[p] = "done")
              => /\ result'[p] = [status |-> "error", code |-> "P2002", http |-> 409]
                 /\ <<wallets, txs, ledger>>' = <<wallets, txs, ledger>>]_vars
    /\ [](\A p \in Procs :
            Replayed(p) => result[p].data.transactionId = EntryOf(p).transactionId)

C4_Witness ==
    \E p \in Procs, q \in Procs :
       /\ p # q /\ req[p].idempotencyKey = req[q].idempotencyKey
       /\ Committed(p) /\ Failed(q, "P2002") /\ result[q].http = 409
       /\ result[p].data.transactionId = EntryOf(q).transactionId

----------------------------------------------------------------------------
\* C5: resubmitting a request whose key already has a committed entry ends at the replay
\* check, answered as a replay, and leaves every committed row (hence every derived
\* balance) as it was; and a key that answered a request successfully has exactly one
\* committed entry.
C5_ResubmissionHasNoEffect ==
    /\ [](\A p \in Procs : Succeeded(p) => Cardinality(EntriesUnder(req[p].idempotencyKey)) = 1)
    /\ [][\A p \in Procs :
            (pc[p] = "check" /\ EntriesUnder(req[p].idempotencyKey) # {} /\ pc'[p] # pc[p])
              => /\ pc'[p] = "done"
                 /\ result'[p].status = "ok" /\ result'[p].data.idempotent
                 /\ <<wallets, txs, ledger>>' = <<wallets, txs, ledger>>]_vars

\* a slot with a key of its own committed its request and then, resubmitting it, was
\* answered as a replay
C5_Witness ==
    \E p \in Procs :
       /\ \A q \in Procs \ {p} : req[q].idempotencyKey # req[p].idempotencyKey
       /\ Replayed(p)
       /\ first[req[p].idempotencyKey] # NoResult
       /\ Cardinality(EntriesUnder(req[p].idempotencyKey)) = 1

----------------------------------------------------------------------------
\* C6: the payload of a replayed request equals the payload the original request was
\* answered with, except that its replay flag is true.
C6_ReplayPayloadIsOriginal ==
    \A p \in Procs :
       Replayed(p) =>
          [result[p].data EXCEPT !.idempotent = FALSE] = first[req[p].idempotencyKey]

----------------------------------------------------------------------------
(* Waiting *)

\* the open units whose end p's next statement is waiting for
Blockers(p) ==
    LET a == req[p].assetTypeId
        u == IF pc[p] \in {"userWallet", "userInsert"} THEN req[p].userId ELSE SystemUser
    IN
    IF pc[p] \in {"userWallet", "treasuryWallet"}
      THEN LET seen == WalletRows(VisibleWallets(p), u, a) IN
             IF seen # {}
               THEN LET w == CHOOSE x \in seen : TRUE IN
                      IF nativeUpsert /\ w \in wallets THEN LockHolders(w.id) \ {p} ELSE {}
               ELSE IF nativeUpsert THEN WalletInserters(u, a) \ {p} ELSE {}
    ELSE IF pc[p] \in {"userInsert", "treasuryInsert"}
      THEN WalletInserters(u, a) \ {p}
    ELSE IF pc[p] = "lock"
      THEN IF \E w \in wallets : w.id = NextLockId(p)
             THEN LockHolders(NextLockId(p)) \ {p} ELSE {}
    ELSE IF pc[p] = "createEntry"
      THEN KeyInserters(req[p].idempotencyKey) \ {p}
    ELSE {}

\* the units reached from S along at most n waits
RECURSIVE WaitReach(_, _)
WaitReach(S, n) ==
    IF n = 0 THEN S ELSE WaitReach(S \cup UNION {Blockers(q) : q \in S}, n - 1)

InCycle(p) == p \in WaitReach(Blockers(p), NumProcs)

Started(p) == pc[p] \notin {"idle", "done"}

\* C7: no set of operations ever waits on each other's locks in a cycle, and under fair
\* scheduling every started operation terminates (commits or fails).
C7_NoDeadlock ==
    /\ [](\A p \in Procs : ~InCycle(p))
    /\ \A p \in Procs : Started(p) ~> Done(p)

\* an operation whose treasury wallet sorts before its user wallet waits, holding no
\* lock yet, for another operation on the same two wallets
C7_Witness ==
    \E p \in Procs, q \in Procs :
       /\ pc[p] = "lock" /\ lockIdx[p] = 0 /\ Blockers(p) = {q}
       /\ LexLess(treasuryWallet[p], userWallet[p])
       /\ userWallet[q] = userWallet[p] /\ treasuryWallet[q] = treasuryWallet[p]

\* C8: lockWalletsInOrder requests its locks in ascending order of wallet identifier:
\* the identifier it is about to lock is never smaller than one it has locked already,
\* whichever of the user wallet and the treasury wallet has the smaller identifier.
C8_LocksAscending ==
    \A p \in Procs :
       pc[p] = "lock" => \A id \in LockedInOrder(p) : ~LexLess(NextLockId(p), id)

\* the treasury wallet has the smaller identifier: it is locked, the user wallet is next
C8_Witness ==
    \E p \in Procs :
       /\ pc[p] = "lock" /\ lockIdx[p] = 1
       /\ LockedInOrder(p) = {treasuryWallet[p]} /\ NextLockId(p) = userWallet[p]
       /\ LexLess(treasuryWallet[p], userWallet[p])
       /\ treasuryWallet[p] \in rowLock[p]

----------------------------------------------------------------------------
RECURSIVE SumBalances(_)
SumBalances(W) ==
    IF W = {} THEN 0
    ELSE LET w == CHOOSE x \in W : TRUE IN computeBalance(w.id) + SumBalances(W \ {w})

\* C9: for every asset type, the derived balances of all committed wallets of that
\* asset, the treasury's included, sum to zero.
C9_ZeroSum ==
    \A a \in AssetTypes : SumBalances({w \in wallets : w.assetTypeId = a}) = 0

\* alice holds LP in a wallet created after the seed; the LP treasury wallet has issued
\* hers and bob's
C9_Witness ==
    \E b \in wallets, t \in wallets :
       /\ b.userId = "alice" /\ b.assetTypeId = "LP" /\ computeBalance(b.id) > 0
       /\ t.userId = TreasuryUser /\ t.assetTypeId = "LP"
       /\ computeBalance(t.id) = 0 - (computeBalance(b.id) + computeBalance(bobLP))
       /\ computeBalance(bobLP) > 0

----------------------------------------------------------------------------
\* every committed row is the work of a request that was answered with success
NothingFromFailedAttempts ==
    /\ \A w \in wallets :
          \/ w.id \in SeedScriptWalletIds
          \/ \E e \in ledger : w.id \in {e.debitWalletId, e.creditWalletId}
    /\ \A t \in txs : \E e \in ledger : e.transactionId = t.id
    /\ \A e \in EngineEntries :
          /\ first[e.idempotencyKey] # NoResult
          /\ first[e.idempotencyKey].transactionId = e.transactionId

\* C10: an attempt that fails after its atomic unit has started changes no committed
\* row when it fails, and no Wallet, Transaction or LedgerEntry row of a failed attempt
\* is ever in the committed store.
C10_FailedAttemptLeavesNothing ==
    /\ []NothingFromFailedAttempts
    /\ [][\A p \in Procs :
            (pc[p] \in InUnit /\ pc'[p] = "done" /\ result'[p].status = "error")
              => <<wallets, txs, ledger>>' = <<wallets, txs, ledger>>]_vars

\* alice's Spend on LP created her LP wallet inside its unit and was refused: she has
\* no committed LP wallet
C10_Witness ==
    \E p \in Procs :
       /\ Failed(p, "Insufficient balance")
       /\ req[p].userId = "alice" /\ req[p].assetTypeId = "LP"
       /\ WalletRows(wallets, "alice", "LP") = {}

----------------------------------------------------------------------------
\* p's unit holds the row lock of wallet id, or inserted the row itself
HoldsWallet(p, id) == id \in rowLock[p] \/ \E w \in pend[p].wallets : w.id = id

\* C11: a Spend reads the balance of the user's wallet while it holds that wallet; when
\* the amount exceeds the balance read, the Spend ends there with the Insufficient
\* balance failure (HTTP 422) and no committed row, hence no derived balance, changes.
C11_InsufficientSpendRefused ==
    /\ [](\A p \in Procs : pc[p] = "balance" => HoldsWallet(p, userWallet[p]))
    /\ [][\A p \in Procs :
            (/\ pc[p] = "balance" /\ pc'[p] # "balance"
             /\ BalanceOver(ledger \cup pend[p].ledger, userWallet[p]) * 10 < req[p].amount)
              => /\ pc'[p] = "done"
                 /\ result'[p] = [status |-> "error", code |-> "Insufficient balance",
                                  http |-> 422]
                 /\ <<wallets, txs, ledger>>' = <<wallets, txs, ledger>>]_vars

\* alice's Spend was refused for an amount above her balance and left no entry
C11_Witness ==
    \E p \in Procs :
       /\ Failed(p, "Insufficient balance") /\ result[p].http = 422
       /\ req[p].userId = "alice" /\ req[p].type = "SPEND"
       /\ computeBalance(AliceWallet) * 10 < req[p].amount
       /\ EntriesUnder(req[p].idempotencyKey) = {}

----------------------------------------------------------------------------
\* the committed wallet of user u for asset a
WalletOf(u, a) == (CHOOSE w \in wallets : w.userId = u /\ w.assetTypeId = a).id

\* C12: every entry committed by TopUp or Bonus debits the treasury wallet of its asset
\* and credits the requesting user's wallet of that asset; every entry committed by Spend
\* debits the user's wallet and credits the treasury wallet; the entry's kind is the
\* kind of the operation that wrote it.
C12_DirectionOfValue ==
    \A e \in EngineEntries :
       \E p \in Procs :
          /\ req[p].idempotencyKey = e.idempotencyKey
          /\ req[p].type = e.transactionType
          /\ req[p].assetTypeId = e.assetTypeId
          /\ LET user == WalletOf(req[p].userId, e.assetTypeId)
                 treasury == WalletOf(TreasuryUser, e.assetTypeId)
             IN IF e.transactionType = "SPEND"
                  THEN e.debitWalletId = user /\ e.creditWalletId = treasury
                  ELSE e.debitWalletId = treasury /\ e.creditWalletId = user

\* an issue to alice and a Spend by alice are both committed, each between two wallets
C12_Witness ==
    \E e \in EngineEntries, f \in EngineEntries :
       /\ e.transactionType \in {"TOPUP", "BONUS"} /\ f.transactionType = "SPEND"
       /\ e.creditWalletId = AliceWallet /\ f.debitWalletId = AliceWallet
       /\ e.debitWalletId = WalletOf(TreasuryUser, "GC")
       /\ f.creditWalletId = WalletOf(TreasuryUser, "GC")

----------------------------------------------------------------------------
\* C13: every committed LedgerEntry has a persisted amount greater than zero, whatever
\* positive amount was requested, amounts with more than four fractional digits included.
C13_AmountsPositive == \A e \in ledger : e.amount > 0

\* C14: every committed LedgerEntry has a debit wallet different from its credit wallet,
\* whoever the requesting user is, the treasury user included.
C14_DebitNotCredit == \A e \in ledger : e.debitWalletId # e.creditWalletId

----------------------------------------------------------------------------
\* positions of the two wallet resolutions
Resolving == {"userWallet", "userInsert", "treasuryWallet", "treasuryInsert"}

\* C15: there is at most one committed Wallet row per (user, asset) pair, and no
\* operation is failed by its wallet resolution because another operation created the
\* wallet concurrently.
C15_FirstTouchNeverFails ==
    /\ [](\A u \in Users, a \in AssetTypes : Cardinality(WalletRows(wallets, u, a)) <= 1)
    /\ [][\A p \in Procs :
            (pc[p] \in Resolving /\ pc'[p] = "done") => result'[p].code # "P2002"]_vars

----------------------------------------------------------------------------
\* C16: GetBalance never changes the wallets, transactions or ledger entries; when its
\* lookup finds no wallet for the (user, existing asset) pair it creates none and
\* answers with balance 0.0000.
C16_GetBalanceReadsOnly ==
    [][\A p \in Procs :
         (req[p].type = "BALANCE" /\ pc'[p] # pc[p])
           => /\ <<wallets, txs, ledger, pend, rowLock>>' = <<wallets, txs, ledger, pend, rowLock>>
              /\ (/\ pc[p] \in {"idle", "done"}
                  /\ WalletRows(wallets, req[p].userId, req[p].assetTypeId) = {})
                   => pc'[p] = "findAssetType"
              /\ (pc[p] = "findAssetType" /\ req[p].assetTypeId \in AssetTypes)
                   => /\ pc'[p] = "done"
                      /\ result'[p] = [status |-> "ok", http |-> 200,
                                       data |-> [userId |-> req[p].userId,
                                                 assetTypeId |-> req[p].assetTypeId,
                                                 balance |-> 0]]]_vars

\* alice's LP balance was asked for and answered 0.0000 while alice has no LP wallet
C16_Witness ==
    \E p \in Procs :
       /\ req[p].type = "BALANCE" /\ req[p].userId = "alice" /\ req[p].assetTypeId = "LP"
       /\ Done(p) /\ result[p].status = "ok" /\ result[p].data.balance = 0
       /\ WalletRows(wallets, "alice", "LP") = {}

----------------------------------------------------------------------------
\* C17: GetBalance answers with the committed credits of the wallet minus its committed
\* debits, and the commit of a TopUp or Bonus of amount a raises the derived balance of
\* the user's wallet by exactly a, lowers that of the treasury wallet of the asset by
\* exactly a, and changes the derived balance of no other wallet.
C17_BalanceFromHistory ==
    [][\A p \in Procs :
         /\ (pc[p] = "computeBalance" /\ pc'[p] = "done")
               => result'[p].data.balance = BalanceOver(ledger, userWallet[p])
         /\ (/\ pc[p] = "commit" /\ pc'[p] = "done" /\ result'[p].status = "ok"
             /\ req[p].type \in {"TOPUP", "BONUS"})
               => \A w \in wallets' :
                     BalanceOver(ledger', w.id) * 10 - BalanceOver(ledger, w.id) * 10
                       = IF w.id = userWallet[p] THEN req[p].amount
                         ELSE IF w.id = treasuryWallet[p] THEN 0 - req[p].amount
                         ELSE 0]_vars

----------------------------------------------------------------------------
\* C18: a committed LedgerEntry stays in every later state with all its fields as they
\* were, no Wallet row is ever removed, and GetBalance and GetHistory change no row.
C18_AppendOnly ==
    [][/\ ledger \subseteq ledger'
       /\ wallets \subseteq wallets'
       /\ \A p \in Procs :
             (req[p].type \in Queries /\ pc'[p] # pc[p])
               => <<wallets, txs, ledger>>' = <<wallets, txs, ledger>>]_vars

\* a history read after a commit shows the new entry above the seed entry, which is
\* still there
C18_Witness ==
    \E p \in Procs :
       /\ req[p].type = "HISTORY" /\ Done(p) /\ result[p].status = "ok"
       /\ Len(result[p].data) = 2
       /\ result[p].data[2].createdAt = 0 /\ result[p].data[1].createdAt > 0
       /\ SeedEntries # {} /\ EngineEntries # {}

----------------------------------------------------------------------------
\* C19: in every committed state every Transaction row has status COMPLETED and has its
\* LedgerEntry, every LedgerEntry has its COMPLETED Transaction, and every row a history
\* read returned shows status COMPLETED.
C19_EntryAndStatusAtomic ==
    /\ \A t \in txs : /\ t.status = "COMPLETED"
                       /\ \E e \in ledger : e.transactionId = t.id
    /\ \A e \in ledger : \E t \in txs : t.id = e.transactionId /\ t.status = "COMPLETED"
    /\ \A p \in Procs :
          (req[p].type = "HISTORY" /\ Done(p) /\ result[p].status = "ok")
            => \A i \in 1..Len(result[p].data) : result[p].data[i].status = "COMPLETED"

\* a Bonus or Spend, whose Transaction row is created PENDING, is committed, and a
\* history read returned its entry
C19_Witness ==
    \E p \in Procs, q \in Procs :
       /\ Committed(p) /\ req[p].type \in {"BONUS", "SPEND"}
       /\ \E t \in txs : /\ t.id = result[p].data.transactionId
                          /\ t.type = req[p].type /\ t.status = "COMPLETED"
       /\ req[q].type = "HISTORY" /\ Done(q) /\ result[q].status = "ok"
       /\ \E i \in 1..Len(result[q].data) : result[q].data[i].type = req[p].type

----------------------------------------------------------------------------
\* C20: a TopUp, Bonus or Spend request whose amount is not positive is answered with
\* the validation failure (HTTP 400) and nothing else: it never gets past the entry, so
\* it makes no replay lookup, opens no unit, takes no lock and changes no row, even
\* when its idempotency key already belongs to a committed entry.
C20_NonPositiveRejectedFirst ==
    /\ [](\A p \in Procs :
            (req[p].type \in Kinds /\ req[p].amount <= 0)
              => /\ pc[p] \in {"idle", "done"}
                 /\ rowLock[p] = {} /\ pend[p] = NoPend
                 /\ result[p] \in {NoResult,
                                   [status |-> "error", code |-> "ZodError", http |-> 400]})
    /\ [][\A p \in Procs :
            (req[p].type \in Kinds /\ req[p].amount <= 0 /\ result'[p] # result[p])
              => <<wallets, txs, ledger>>' = <<wallets, txs, ledger>>]_vars

\* the key of the refused request belongs to a committed entry
C20_Witness ==
    \E p \in Procs :
       /\ req[p].type \in Kinds /\ req[p].amount <= 0
       /\ Failed(p, "ZodError") /\ result[p].http = 400
       /\ EntriesUnder(req[p].idempotencyKey) # {}

----------------------------------------------------------------------------
\* a mutation that names a user or an asset type no row carries (the seed creates the
\* system user before any other row, so a store without one does not occur)
NamesNothing(p) ==
    /\ req[p].type \in Kinds
    /\ \/ req[p].userId \notin Users
       \/ req[p].assetTypeId \notin AssetTypes

\* C21: a TopUp, Bonus or Spend request that names an unknown asset type or an unknown
\* user is answered with the NotFound failure (HTTP 404) unless its unit ran into the
\* timeout, and it changes no committed row: in particular no Wallet row for the
\* requesting user appears.
C21_UnknownIsNotFound ==
    /\ [](\A p \in Procs :
            (NamesNothing(p) /\ Done(p))
              => /\ result[p].status = "error"
                 /\ result[p].code # "Transaction timeout" => result[p].http = 404)
    /\ [][\A p \in Procs :
            (NamesNothing(p) /\ pc'[p] # pc[p])
              => <<wallets, txs, ledger>>' = <<wallets, txs, ledger>>]_vars

----------------------------------------------------------------------------
\* ids of the committed wallets a history request of p is about
HistoryWallets(p) ==
    {w.id : w \in {x \in wallets :
                     /\ x.userId = req[p].userId
                     /\ req[p].assetTypeId # NoAsset => x.assetTypeId = req[p].assetTypeId}}

\* the committed entries that debit or credit a wallet of W
Touching(W) == {e \in ledger : e.debitWalletId \in W \/ e.creditWalletId \in W}

\* C22: GetHistory returns at most HistoryLimit rows, newest first by creation time;
\* every row debits or credits one of the user's wallets (of the given asset when one is
\* given); the rows are the most recent of the committed entries touching the wallets the
\* lookup found, all of them when there are no more than HistoryLimit; and the list is
\* empty when the user has no wallet.
C22_HistoryNewestFirst ==
    /\ [](\A p \in Procs :
            (req[p].type = "HISTORY" /\ Done(p) /\ result[p].status = "ok")
              => LET R == result[p].data IN
                   /\ Len(R) <= HistoryLimit
                   /\ \A i \in 1..Len(R), j \in 1..Len(R) :
                         i < j => R[i].createdAt > R[j].createdAt
                   /\ \A i \in 1..Len(R) :
                         \/ R[i].debitWalletId \in HistoryWallets(p)
                         \/ R[i].creditWalletId \in HistoryWallets(p)
                   /\ HistoryWallets(p) = {} => R = <<>>)
    /\ [][\A p \in Procs :
            (pc[p] = "findEntries" /\ pc'[p] = "done")
              => LET R == result'[p].data
                     E == Touching(walletIds[p])
                 IN /\ walletIds[p] \subseteq HistoryWallets(p)
                    /\ Len(R) = Min(Cardinality(E), HistoryLimit)
                    /\ \A i \in 1..Len(R) :
                          \E e \in E : /\ e.createdAt = R[i].createdAt
                                       /\ e.amount = R[i].amount
                                       /\ e.transactionType = R[i].type
                                       /\ e.debitWalletId = R[i].debitWalletId
                                       /\ e.creditWalletId = R[i].creditWalletId
                    /\ \A e \in E :
                          (\A i \in 1..Len(R) : R[i].createdAt # e.createdAt)
                            => \A i \in 1..Len(R) : e.createdAt < R[i].createdAt]_vars

\* alice's wallets are touched by more entries than a history read returns; a read over
\* all her wallets returned HistoryLimit rows, the newest committed entry first, and
\* left the oldest out
C22_Witness ==
    \E p \in Procs :
       /\ req[p].type = "HISTORY" /\ req[p].userId = "alice" /\ req[p].assetTypeId = NoAsset
       /\ Done(p) /\ result[p].status = "ok"
       /\ Cardinality(Touching(HistoryWallets(p))) > HistoryLimit
       /\ Len(result[p].data) = HistoryLimit
       /\ \A e \in ledger : e.createdAt <= result[p].data[1].createdAt
       /\ \A i \in 1..Len(result[p].data) : result[p].data[i].createdAt # 0

----------------------------------------------------------------------------
\* the step in which p's unit is aborted by its timeout
TimedOut(p) ==
    /\ pc[p] \in InUnit /\ pc'[p] = "done"
    /\ result'[p].status = "error" /\ result'[p].code = "Transaction timeout"

\* C23: when a unit is aborted by its timeout, at whatever step it stands, it holds no
\* lock afterwards, none of its rows is pending or committed, every operation that was
\* waiting for it alone waits no longer, and the request stays answered until the caller
\* submits again: the engine starts no operation by itself.
C23_TimeoutReleases ==
    /\ [][\A p \in Procs :
            TimedOut(p)
              => /\ rowLock'[p] = {} /\ pend'[p] = NoPend
                 /\ <<wallets, txs, ledger>>' = <<wallets, txs, ledger>>
                 /\ result'[p].http = 500
                 /\ \A q \in Procs \ {p} :
                       (Started(q) /\ Blockers(q) = {p}) => Blockers(q)' = {}]_vars
    /\ [][\A p \in Procs :
            (pc[p] = "done" /\ pc'[p] # "done")
              => Call(p) \/ getBalance(p) \/ getTransactionHistory(p)]_vars

\* a unit was aborted by its timeout and holds nothing; another one, on the same wallets,
\* is committed; no entry carries the key of the aborted request
C23_Witness ==
    \E p \in Procs, q \in Procs :
       /\ Failed(p, "Transaction timeout")
       /\ rowLock[p] = {} /\ pend[p] = NoPend
       /\ EntriesUnder(req[p].idempotencyKey) = {}
       /\ Committed(q)
       /\ req[q].userId = req[p].userId /\ req[q].assetTypeId = req[p].assetTypeId

----------------------------------------------------------------------------
\* C24: the remaining balance a successful Spend returns is the derived balance of the
\* user's wallet in the committed state the Spend produced.
C24_RemainingIsDerived ==
    [][\A p \in Procs :
         (/\ pc[p] = "commit" /\ pc'[p] = "done" /\ req[p].type = "SPEND"
          /\ result'[p].status = "ok")
           => result'[p].data.remainingBalance = BalanceOver(ledger', userWallet[p])]_vars

----------------------------------------------------------------------------
\* C25: an operation holds a wallet's row lock only while its atomic unit is open: none
\* before the unit has started, none once the operation has committed, failed or been
\* aborted; and no wallet's row lock is held by two operations at a time.
C25_LocksScopedToUnit ==
    /\ \A p \in Procs : pc[p] \notin InUnit => rowLock[p] = {}
    /\ \A id \in WalletIds : Cardinality(LockHolders(id)) <= 1
    /\ \A p \in Procs : \A id \in rowLock[p] : \E w \in wallets : w.id = id

\* one operation holds both wallets of its entry while another waits for one of them,
\* holding none that the first needs
C25_Witness ==
    \E p \in Procs, q \in Procs :
       /\ Cardinality(rowLock[p]) = 2
       /\ pc[q] = "lock" /\ NextLockId(q) \in rowLock[p]
       /\ rowLock[q] \cap rowLock[p] = {}

----------------------------------------------------------------------------
\* positions of a Spend from the balance read to the end of its unit
FromBalanceRead == {"balance", "createTx", "createEntry", "updateTx", "commit"}

\* C26: a Spend reads the gating balance, and stays from then on until its unit ends,
\* holding both the user's wallet and the treasury wallet; and from the read to its own
\* commit or abort no entry that debits or credits the user's wallet is committed, other
\* than its own at its commit.
C26_BalanceReadUnderLocks ==
    /\ [](\A p \in Procs :
            (req[p].type = "SPEND" /\ pc[p] \in FromBalanceRead)
              => /\ HoldsWallet(p, userWallet[p])
                 /\ HoldsWallet(p, treasuryWallet[p]))
    /\ [][\A p \in Procs :
            (req[p].type = "SPEND" /\ pc[p] \in FromBalanceRead)
              => \A e \in ledger' \ ledger :
                    userWallet[p] \in {e.debitWalletId, e.creditWalletId}
                      => /\ pc[p] = "commit" /\ pc'[p] = "done"
                         /\ e.transactionId = transaction[p]]_vars

\* a Spend has read alice's balance and not yet committed, while another operation on
\* the same wallet waits for the lock the Spend holds
C26_Witness ==
    \E p \in Procs, q \in Procs :
       /\ req[p].type = "SPEND" /\ pc[p] \in FromBalanceRead \ {"balance"}
       /\ userWallet[p] = AliceWallet
       /\ pc[q] = "lock" /\ userWallet[q] = userWallet[p]
       /\ NextLockId(q) \in rowLock[p]

----------------------------------------------------------------------------
\* the Transaction rows committed by TopUp, Bonus and Spend
EngineTxs == {t \in txs : t.id # SeedTx}

\* C27: every Transaction row committed by TopUp, Bonus or Spend has exactly one
\* LedgerEntry and every such entry exactly one Transaction row, so there are as many of
\* the ones as of the others; and a commit adds exactly one row of each.
C27_OneEntryPerTransaction ==
    /\ [](/\ Cardinality(EngineTxs) = Cardinality(EngineEntries)
          /\ \A t \in EngineTxs : Cardinality({e \in ledger : e.transactionId = t.id}) = 1
          /\ \A e \in EngineEntries : Cardinality({t \in EngineTxs : t.id = e.transactionId}) = 1)
    /\ [][\A p \in Procs :
            (pc[p] = "commit" /\ pc'[p] = "done" /\ result'[p].status = "ok")
              => /\ Cardinality(ledger' \ ledger) = 1
                 /\ Cardinality(txs' \ txs) = 1]_vars

\* two operations of different kinds are committed, each with its own Transaction row
C27_Witness ==
    \E p \in Procs, q \in Procs :
       /\ Committed(p) /\ Committed(q) /\ req[p].type # req[q].type
       /\ result[p].data.transactionId # result[q].data.transactionId
       /\ Cardinality(EngineTxs) = 2 /\ Cardinality(EngineEntries) = 2

----------------------------------------------------------------------------
\* the answer to a replay of the committed entry e
ReplayOf(e) ==
    [status |-> "ok", http |-> 200,
     data |-> [message |-> "Duplicate request - returning original result",
               idempotent |-> TRUE, transactionId |-> e.transactionId]]

\* C28: a replay hit is terminal and without effect: the replay check never waits, and
\* when it finds a committed entry under the key of the request the operation ends in that
\* step, with the entry's transaction identifier, having opened no unit, resolved no
\* wallet, taken no lock and read no balance.
C28_ReplayHitIsTerminal ==
    /\ [](\A p \in Procs : pc[p] = "check" => ENABLED CheckIdempotency(p))
    /\ [][\A p \in Procs :
            (pc[p] = "check" /\ pc'[p] # pc[p] /\ EntriesUnder(req[p].idempotencyKey) # {})
              => /\ pc'[p] = "done"
                 /\ result'[p].status = "ok"
                 /\ result'[p].data.transactionId = EntryOf(p).transactionId
                 /\ <<rowLock, pend, wallets, txs, ledger>>' = <<rowLock, pend, wallets, txs, ledger>>
                 /\ userWallet'[p] = NoId /\ treasuryWallet'[p] = NoId
                 /\ lockIdx'[p] = 0 /\ balance'[p] = 0 /\ transaction'[p] = NoTx]_vars

\* a Spend that emptied alice's wallet was submitted again and answered as a replay with
\* the transaction it had committed, while her balance is below the amount and another
\* operation holds the lock of her wallet
C28_Witness ==
    \E p \in Procs, q \in Procs :
       /\ Replayed(p) /\ req[p].type = "SPEND" /\ req[p].userId = "alice"
       /\ EntryOf(p).transactionType = "SPEND"
       /\ result[p].data.transactionId = EntryOf(p).transactionId
       /\ computeBalance(AliceWallet) * 10 < req[p].amount
       /\ pc[q] \in InUnit /\ AliceWallet \in rowLock[q]

----------------------------------------------------------------------------
\* C29: replay detection looks at the idempotency key alone: a request whose key belongs
\* to a committed entry when the replay check runs is answered with the replay of that
\* entry (its transaction identifier, replay flag true, HTTP 200) and no row is written,
\* whatever the user, the asset, the amount and the kind of the request are.
C29_ReplayKeyedOnKeyAlone ==
    /\ [][\A p \in Procs :
            (pc[p] = "check" /\ pc'[p] # pc[p])
              => \A e \in EntriesUnder(req[p].idempotencyKey) :
                    /\ result'[p] = ReplayOf(e)
                    /\ <<wallets, txs, ledger, pend>>' = <<wallets, txs, ledger, pend>>]_vars
    /\ [](\A p \in Procs :
            Replayed(p) => \E e \in EntriesUnder(req[p].idempotencyKey) : result[p] = ReplayOf(e))

\* a request for bob on DIA was answered as the replay of a TopUp of another amount for
\* alice on GC; bob still has no DIA wallet
C29_Witness ==
    \E p \in Procs :
       /\ Replayed(p) /\ req[p].userId = "bob" /\ req[p].assetTypeId = "DIA"
       /\ req[p].type # "TOPUP"
       /\ LET e == EntryOf(p) IN
            /\ e.transactionType = "TOPUP" /\ e.assetTypeId = "GC"
            /\ e.creditWalletId = AliceWallet
            /\ e.amount * 10 # req[p].amount
            /\ result[p].data.transactionId = e.transactionId
       /\ WalletRows(wallets, "bob", "DIA") = {}

----------------------------------------------------------------------------
\* C30: a failed attempt does not consume its key: a key under which no request has
\* committed belongs to no committed entry, whatever failed under it; and a request whose
\* key belongs to no committed entry when the replay check runs goes on as a fresh
\* request, which, when it commits, is answered with the replay flag false.
C30_FailureKeepsKeyFree ==
    /\ [](\A k \in Keys : first[k] = NoResult => EntriesUnder(k) = {})
    /\ [][\A p \in Procs :
            /\ (pc[p] = "check" /\ pc'[p] # pc[p] /\ EntriesUnder(req[p].idempotencyKey) = {})
                  => pc'[p] = "userWallet"
            /\ (pc[p] = "commit" /\ pc'[p] = "done" /\ result'[p].status = "ok")
                  => /\ ~result'[p].data.idempotent
                     /\ EntriesUnder(req[p].idempotencyKey) = {}
                     /\ EntriesUnder(req[p].idempotencyKey)' # {}]_vars

\* a Spend was refused for insufficient balance; afterwards another request under the
\* same key was processed as a fresh one and is committed
C30_Witness ==
    \E p \in Procs, q \in Procs :
       /\ Failed(p, "Insufficient balance")
       /\ req[q].idempotencyKey = req[p].idempotencyKey
       /\ Committed(q) /\ ~result[q].data.idempotent
       /\ EntriesUnder(req[p].idempotencyKey) # {}
       /\ computeBalance(AliceWallet) * 10 >= req[p].amount

----------------------------------------------------------------------------
\* the mutations on asset a that have taken all their wallet locks and whose unit is
\* still open
PastLocks(a) ==
    {p \in Procs : /\ req[p].type \in Kinds /\ req[p].assetTypeId = a
                   /\ pc[p] \in FromBalanceRead}

\* C31: mutations on one asset are serialized by the lock of the asset's treasury
\* wallet: at most one TopUp, Bonus or Spend on an asset is between having taken all its
\* wallet locks and the end of its unit, that one holds the treasury wallet of the asset,
\* and the uncommitted entries of one asset belong to one unit.
C31_OneMutationPerAsset ==
    \A a \in AssetTypes :
       /\ Cardinality(PastLocks(a)) <= 1
       /\ \A p \in PastLocks(a) :
             /\ HoldsWallet(p, treasuryWallet[p])
             /\ \E w \in VisibleWallets(p) :
                   /\ w.id = treasuryWallet[p]
                   /\ w.userId = TreasuryUser /\ w.assetTypeId = a
       /\ Cardinality({p \in Procs : \E e \in pend[p].ledger : e.assetTypeId = a}) <= 1

\* alice's operation on GC has all its locks and has inserted its entry, while bob's
\* operation on GC, on a wallet of his own, waits for the treasury wallet
C31_Witness ==
    \E p \in Procs, q \in Procs :
       /\ req[p].userId = "alice" /\ req[q].userId = "bob"
       /\ req[p].assetTypeId = "GC" /\ req[q].assetTypeId = "GC"
       /\ p \in PastLocks("GC") /\ pend[p].ledger # {}
       /\ userWallet[q] # NoId /\ userWallet[q] # userWallet[p]
       /\ pc[q] \in {"treasuryWallet", "lock"} /\ Blockers(q) = {p}
       /\ treasuryWallet[p] \in rowLock[p]

----------------------------------------------------------------------------
\* C32: quantization cannot overdraw: a Spend that passed the guard read a balance that
\* covers the requested amount, the amount it persists after rounding to four fractional
\* digits is no more than that balance, and the derived balance of the wallet it debits
\* is at least zero when it commits.
C32_RoundedAmountCovered ==
    /\ [](\A p \in Procs :
            (req[p].type = "SPEND" /\ pc[p] \in FromBalanceRead \ {"balance"})
              => /\ balance[p] * 10 >= req[p].amount
                 /\ ToFixed4(req[p].amount) <= balance[p]
                 /\ \A e \in pend[p].ledger :
                       /\ e.amount = ToFixed4(req[p].amount)
                       /\ e.amount <= balance[p]
                       /\ computeBalanceInTx(p, e.debitWalletId) >= 0)
    /\ [][\A p \in Procs :
            (/\ req[p].type = "SPEND" /\ pc[p] = "commit" /\ pc'[p] = "done"
             /\ result'[p].status = "ok")
              => BalanceOver(ledger', userWallet[p]) >= 0]_vars

\* a Spend of 0.00005 found a balance of 0.0001, persisted 0.0001 and left the wallet
\* at exactly zero
C32_Witness ==
    \E p \in Procs :
       /\ Committed(p) /\ req[p].type = "SPEND" /\ req[p].amount % 10 # 0
       /\ EntryOf(p).amount * 10 > req[p].amount
       /\ EntryOf(p).debitWalletId = AliceWallet
       /\ computeBalance(AliceWallet) = 0

====
